---- MODULE Spec2Model ----
(***************************************************************************)
(* LRU-K replacer of the BusTub buffer pool (src/buffer/lru_k_replacer.cpp)*)
(* as a state machine: one action per public method, each taken as a whole *)
(* (every method holds latch_ from entry to exit).                         *)
(***************************************************************************)
EXTENDS Integers, Sequences, FiniteSets, TLC

\* Bounds of the model.
MaxFrames == 1      \* replacer_size_ is drawn from 1..MaxFrames
MaxK == 3           \* k_ is drawn from 1..MaxK
MaxTime == 3        \* RecordAccess stops advancing the clock at MaxTime

\* frame_id_t is a signed 32-bit integer: the callers' inputs include one id
\* below the range, the ids of the range, id == capacity and id > capacity.
FrameIds == {-1} \cup (0..(MaxFrames + 1))

VARIABLES
    replacer_size_,      \* size_t replacer_size_ (constructor argument num_frames)
    k_,                  \* size_t k_ (constructor argument k)
    current_timestamp_,  \* logical clock
    curr_size_,          \* the counter Size() returns
    hist,                \* frame -> retained access timestamps, oldest first
    recorded_cnt_,       \* frame -> access count since last untracked
    evictable_,          \* frame -> evictable flag
    new_frame_,          \* list of frames with fewer than k_ accesses, front first
    new_locate_,         \* frames having an iterator into new_frame_
    cache_frame_,        \* list of <<frame, kth_time>> sorted by kth_time
    cache_locate_,       \* frames having an iterator into cache_frame_
    result,              \* how the last call ended
    latch_,              \* std::mutex latch_: the set holding its owner, {} when free
    pc,                  \* caller -> where it is in its call
    call,                \* caller -> the call it is making
    snap                 \* caller -> the replacer state it found on taking latch_

state == <<replacer_size_, k_, current_timestamp_, curr_size_, hist, recorded_cnt_,
           evictable_, new_frame_, new_locate_, cache_frame_, cache_locate_>>

vars == <<replacer_size_, k_, current_timestamp_, curr_size_, hist, recorded_cnt_,
          evictable_, new_frame_, new_locate_, cache_frame_, cache_locate_, result>>

\* The callers' side: the mutex and each caller's position.
tvars == <<latch_, pc, call, snap>>

cvars == <<vars, tvars>>

\* The concurrent callers.
Threads == {"t1", "t2"}

NoCall == [op |-> "none", frame |-> {}, flag |-> FALSE]

----------------------------------------------------------------------------
\* Helpers: the std::list operations the methods use.

\* A push_back in place of the push_front.
PushBack(list, frame) == Append(list, frame)

\* std::list::push_front
PushFront(list, frame) == <<frame>> \o list

\* std::list::erase(iterator): the iterator kept for a frame designates the
\* one node holding that frame.
EraseAt(list, i) == SubSeq(list, 1, i - 1) \o SubSeq(list, i + 1, Len(list))

NewIndex(list, frame) == CHOOSE i \in 1..Len(list) : list[i] = frame

CacheIndex(list, frame) == CHOOSE i \in 1..Len(list) : list[i][1] = frame

\* A promotion that forgets the node in new_frame_.
NewEraseNone(list, frame) == list

NewErase(list, frame) == EraseAt(list, NewIndex(list, frame))

\* std::list::remove(value): drops every node equal to value.
ListRemove(list, frame) == SelectSeq(list, LAMBDA x : x # frame)

\* An erase through a stale iterator: the first node goes, whatever it holds.
CacheEraseHead(list, frame) == Tail(list)

CacheErase(list, frame) == EraseAt(list, CacheIndex(list, frame))

\* A history that survives the teardown.
ClearHistKeep(h, frame) == h

\* hist[frame].clear()
ClearHist(h, frame) == [h EXCEPT ![frame] = <<>>]

\* A history that is never trimmed.
DropOldestNone(h) == h

\* hist[frame_id].erase(hist[frame_id].begin())
DropOldest(h) == Tail(h)

\* A first-access branch taken on every access.
IsFirstAccessAlways(count) == TRUE

\* count == 1
IsFirstAccess(count) == count = 1

\* CmpTimestamp(f1, f2): f1.second < f2.second
CmpTimestamp(f1, f2) == f1[2] < f2[2]

\* An insertion at the front of the list in place of the ranked position.
UpperBoundFront(list, value) == 1

\* std::upper_bound(begin, end, value, CmpTimestamp): the first position whose
\* element e satisfies CmpTimestamp(value, e); end (Len + 1) if there is none.
UpperBound(list, value) ==
    IF \E i \in 1..Len(list) : CmpTimestamp(value, list[i])
    THEN CHOOSE i \in 1..Len(list) :
            /\ CmpTimestamp(value, list[i])
            /\ \A j \in 1..(i - 1) : ~CmpTimestamp(value, list[j])
    ELSE Len(list) + 1

\* std::list::insert(it, value): value goes before position i.
InsertAt(list, i, value) == SubSeq(list, 1, i - 1) \o <<value>> \o SubSeq(list, i, Len(list))

\* An insertion at the head of the list in place of the ranked position.
CacheInsertFront(list, value) == <<value>> \o list

CacheInsert(list, value) == InsertAt(list, UpperBound(list, value), value)

\* The range check shared by RecordAccess, SetEvictable and Remove.
InvalidFrame(frame_id) == frame_id > replacer_size_

\* Size()
Size == curr_size_

\* How a call ended: the method, its argument (empty for Evict), the outcome
\* ("true"/"false" for Evict, "return" or "throw" for the others), the frame
\* written to *frame_id, the line of the return or throw statement, and for a
\* successful Evict the number of list nodes visited by the loop that returned.
Result(op, arg, status, out, line, pos) ==
    [op |-> op, arg |-> arg, status |-> status, out |-> out, line |-> line, pos |-> pos]

----------------------------------------------------------------------------
Init ==
    /\ replacer_size_ \in 1..MaxFrames
    /\ k_ \in 1..MaxK
    /\ current_timestamp_ = 0
    /\ curr_size_ = 0
    /\ hist = [f \in FrameIds |-> <<>>]
    /\ recorded_cnt_ = [f \in FrameIds |-> 0]
    /\ evictable_ = [f \in FrameIds |-> FALSE]
    /\ new_frame_ = <<>>
    /\ new_locate_ = {}
    /\ cache_frame_ = <<>>
    /\ cache_locate_ = {}
    /\ result = Result("Init", {}, "return", {}, 17, 0)
    /\ latch_ = {}
    /\ pc = [t \in Threads |-> "idle"]
    /\ call = [t \in Threads |-> NoCall]
    /\ snap = [t \in Threads |-> <<>>]

----------------------------------------------------------------------------
\* Evict: the two scans.  Each gives the number of nodes its loop visits up to
\* and including the first evictable one, 0 when the loop runs to the end.

\* The second loop: cache_frame_ from begin() to end().
\* A scan that takes the first node whatever its flag.
ScanCacheFrameAny == IF Len(cache_frame_) > 0 THEN 1 ELSE 0

\* A scan that tests the first node only.
ScanCacheFrameHead ==
    IF Len(cache_frame_) > 0 /\ evictable_[cache_frame_[1][1]] THEN 1 ELSE 0

ScanCacheFrame ==
    IF \E i \in 1..Len(cache_frame_) : evictable_[cache_frame_[i][1]]
    THEN CHOOSE i \in 1..Len(cache_frame_) :
            /\ evictable_[cache_frame_[i][1]]
            /\ \A j \in 1..(i - 1) : ~evictable_[cache_frame_[j][1]]
    ELSE 0

\* The n-th node visited from rbegin().
NewFromBack(n) == new_frame_[Len(new_frame_) - n + 1]

\* A first loop that yields to the second one whenever that has a candidate.
ScanNewFrameAfterCache ==
    IF ScanCacheFrame # 0 THEN 0
    ELSE IF \E n \in 1..Len(new_frame_) : evictable_[NewFromBack(n)]
    THEN CHOOSE n \in 1..Len(new_frame_) :
            /\ evictable_[NewFromBack(n)]
            /\ \A m \in 1..(n - 1) : ~evictable_[NewFromBack(m)]
    ELSE 0

\* The first loop: new_frame_ from rbegin() to rend().
ScanNewFrame ==
    IF \E n \in 1..Len(new_frame_) : evictable_[NewFromBack(n)]
    THEN CHOOSE n \in 1..Len(new_frame_) :
            /\ evictable_[NewFromBack(n)]
            /\ \A m \in 1..(n - 1) : ~evictable_[NewFromBack(m)]
    ELSE 0

Evict ==
    IF Size = 0
    THEN /\ result' = Result("Evict", {}, "false", {}, 22, 0)
         /\ UNCHANGED state
    ELSE IF ScanNewFrame # 0
    THEN LET frame == NewFromBack(ScanNewFrame) IN
         /\ recorded_cnt_' = [recorded_cnt_ EXCEPT ![frame] = 0]
         /\ new_locate_' = new_locate_ \ {frame}
         /\ new_frame_' = ListRemove(new_frame_, frame)
         /\ curr_size_' = curr_size_ - 1
         /\ hist' = ClearHist(hist, frame)
         /\ result' = Result("Evict", {}, "true", {frame}, 34, ScanNewFrame)
         /\ UNCHANGED <<replacer_size_, k_, current_timestamp_, evictable_,
                        cache_frame_, cache_locate_>>
    ELSE IF ScanCacheFrame # 0
    THEN LET frame == cache_frame_[ScanCacheFrame][1] IN
         /\ recorded_cnt_' = [recorded_cnt_ EXCEPT ![frame] = 0]
         /\ cache_frame_' = EraseAt(cache_frame_, ScanCacheFrame)
         /\ cache_locate_' = cache_locate_ \ {frame}
         /\ curr_size_' = curr_size_ - 1
         /\ hist' = ClearHist(hist, frame)
         /\ result' = Result("Evict", {}, "true", {frame}, 47, ScanCacheFrame)
         /\ UNCHANGED <<replacer_size_, k_, current_timestamp_, evictable_,
                        new_frame_, new_locate_>>
    ELSE /\ result' = Result("Evict", {}, "false", {}, 50, 0)
         /\ UNCHANGED state

----------------------------------------------------------------------------
RecordAccess(frame_id) ==
    IF InvalidFrame(frame_id)
    THEN /\ result' = Result("RecordAccess", {frame_id}, "throw", {}, 56, 0)
         /\ UNCHANGED state
    ELSE /\ current_timestamp_ < MaxTime
         /\ LET ts == current_timestamp_ + 1
                count == recorded_cnt_[frame_id] + 1
                pushed == Append(hist[frame_id], ts)
                new1 == IF IsFirstAccess(count) THEN PushFront(new_frame_, frame_id) ELSE new_frame_
                loc1 == IF IsFirstAccess(count) THEN new_locate_ \cup {frame_id} ELSE new_locate_
            IN
            /\ current_timestamp_' = ts
            /\ recorded_cnt_' = [recorded_cnt_ EXCEPT ![frame_id] = count]
            /\ evictable_' = IF IsFirstAccess(count)
                             THEN [evictable_ EXCEPT ![frame_id] = TRUE]
                             ELSE evictable_
            /\ curr_size_' = IF IsFirstAccess(count) THEN curr_size_ + 1 ELSE curr_size_
            /\ IF count = k_
               THEN /\ new_frame_' = NewErase(new1, frame_id)
                    /\ new_locate_' = loc1 \ {frame_id}
                    /\ hist' = [hist EXCEPT ![frame_id] = pushed]
                    /\ cache_frame_' = CacheInsert(cache_frame_, <<frame_id, Head(pushed)>>)
                    /\ cache_locate_' = cache_locate_ \cup {frame_id}
                    /\ result' = Result("RecordAccess", {frame_id}, "return", {}, 78, 0)
               ELSE IF count > k_
               THEN /\ new_frame_' = new1
                    /\ new_locate_' = loc1
                    /\ hist' = [hist EXCEPT ![frame_id] = DropOldest(pushed)]
                    /\ cache_frame_' = CacheInsert(CacheErase(cache_frame_, frame_id),
                                                   <<frame_id, Head(DropOldest(pushed))>>)
                    /\ cache_locate_' = cache_locate_ \cup {frame_id}
                    /\ result' = Result("RecordAccess", {frame_id}, "return", {}, 89, 0)
               ELSE /\ new_frame_' = new1
                    /\ new_locate_' = loc1
                    /\ hist' = [hist EXCEPT ![frame_id] = pushed]
                    /\ UNCHANGED <<cache_frame_, cache_locate_>>
                    /\ result' = Result("RecordAccess", {frame_id}, "return", {}, 91, 0)
            /\ UNCHANGED <<replacer_size_, k_>>

----------------------------------------------------------------------------
\* The early return of SetEvictable.
\* A test that leaves out the access count.
SetEvictableNoopFlagOnly(frame_id, set_evictable) ==
    evictable_[frame_id] = set_evictable

SetEvictableNoop(frame_id, set_evictable) ==
    evictable_[frame_id] = set_evictable \/ recorded_cnt_[frame_id] = 0

\* An adjustment that always counts up.
SizeAfterSetUp(set_evictable) == curr_size_ + 1

\* The adjustment of curr_size_ at the end of SetEvictable.
SizeAfterSet(set_evictable) == IF set_evictable THEN curr_size_ + 1 ELSE curr_size_ - 1

SetEvictable(frame_id, set_evictable) ==
    IF InvalidFrame(frame_id)
    THEN /\ result' = Result("SetEvictable", {frame_id}, "throw", {}, 96, 0)
         /\ UNCHANGED state
    ELSE IF SetEvictableNoop(frame_id, set_evictable)
    THEN /\ result' = Result("SetEvictable", {frame_id}, "return", {}, 100, 0)
         /\ UNCHANGED state
    ELSE /\ evictable_' = [evictable_ EXCEPT ![frame_id] = set_evictable]
         /\ curr_size_' = SizeAfterSet(set_evictable)
         /\ result' = Result("SetEvictable", {frame_id}, "return", {}, 110, 0)
         /\ UNCHANGED <<replacer_size_, k_, current_timestamp_, hist, recorded_cnt_,
                        new_frame_, new_locate_, cache_frame_, cache_locate_>>

----------------------------------------------------------------------------
\* The test that makes Remove throw.
\* A test that leaves out the evictable flag.
RemoveThrowsRangeOnly(frame_id) == InvalidFrame(frame_id)

RemoveThrows(frame_id) == InvalidFrame(frame_id) \/ ~evictable_[frame_id]

Remove(frame_id) ==
    IF RemoveThrows(frame_id)
    THEN /\ result' = Result("Remove", {frame_id}, "throw", {}, 115, 0)
         /\ UNCHANGED state
    ELSE LET count == recorded_cnt_[frame_id] IN
         IF count = 0
         THEN /\ result' = Result("Remove", {frame_id}, "return", {}, 119, 0)
              /\ UNCHANGED state
         ELSE IF count < k_
         THEN /\ new_frame_' = NewErase(new_frame_, frame_id)
              /\ new_locate_' = new_locate_ \ {frame_id}
              /\ recorded_cnt_' = [recorded_cnt_ EXCEPT ![frame_id] = 0]
              /\ hist' = ClearHist(hist, frame_id)
              /\ curr_size_' = curr_size_ - 1
              /\ result' = Result("Remove", {frame_id}, "return", {}, 126, 0)
              /\ UNCHANGED <<replacer_size_, k_, current_timestamp_, evictable_,
                             cache_frame_, cache_locate_>>
         ELSE /\ cache_frame_' = CacheErase(cache_frame_, frame_id)
              /\ cache_locate_' = cache_locate_ \ {frame_id}
              /\ recorded_cnt_' = [recorded_cnt_ EXCEPT ![frame_id] = 0]
              /\ hist' = ClearHist(hist, frame_id)
              /\ curr_size_' = curr_size_ - 1
              /\ result' = Result("Remove", {frame_id}, "return", {}, 132, 0)
              /\ UNCHANGED <<replacer_size_, k_, current_timestamp_, evictable_,
                             new_frame_, new_locate_>>

----------------------------------------------------------------------------
Next ==
    \/ Evict
    \/ \E frame_id \in FrameIds : RecordAccess(frame_id)
    \/ \E frame_id \in FrameIds, set_evictable \in BOOLEAN :
          SetEvictable(frame_id, set_evictable)
    \/ \E frame_id \in FrameIds : Remove(frame_id)

\* One caller at a time, each method run from entry to exit: the lock is taken
\* and released within the step, and no caller is left inside a call.
SeqNext ==
    \/ Evict /\ UNCHANGED tvars
    \/ \E frame_id \in FrameIds : RecordAccess(frame_id) /\ UNCHANGED tvars
    \/ \E frame_id \in FrameIds, set_evictable \in BOOLEAN :
          SetEvictable(frame_id, set_evictable) /\ UNCHANGED tvars
    \/ \E frame_id \in FrameIds : Remove(frame_id) /\ UNCHANGED tvars

Spec == Init /\ [][SeqNext]_cvars

----------------------------------------------------------------------------
\* Concurrent callers.  Evict, RecordAccess, SetEvictable and Remove open with
\* std::lock_guard<std::mutex> lock(latch_), which blocks until latch_ is free
\* and releases it when the method returns or throws.  Size() takes no lock.

\* The frames the concurrent callers name: one inside the range, one above it.
ConcFrames == {0, replacer_size_ + 1}

CallMenu ==
    {[op |-> "Evict", frame |-> {}, flag |-> FALSE],
     [op |-> "Size", frame |-> {}, flag |-> FALSE]}
    \cup {[op |-> o, frame |-> {f}, flag |-> FALSE] :
             o \in {"RecordAccess", "Remove"}, f \in ConcFrames}
    \cup {[op |-> "SetEvictable", frame |-> {f}, flag |-> b] :
             f \in ConcFrames, b \in BOOLEAN}

\* Calls to RecordAccess under way that will advance the clock.
PendingAccesses ==
    {u \in Threads : /\ pc[u] \in {"lock", "body"}
                     /\ call[u].op = "RecordAccess"
                     /\ \E f \in call[u].frame : ~InvalidFrame(f)}

\* A caller enters a method.  The clock bound of the model is kept by letting
\* no more accesses start than there are ticks left.
Call(t) ==
    /\ pc[t] = "idle"
    /\ \E c \in CallMenu :
          /\ (c.op = "RecordAccess" /\ \E f \in c.frame : ~InvalidFrame(f))
                => current_timestamp_ + Cardinality(PendingAccesses) < MaxTime
          /\ call' = [call EXCEPT ![t] = c]
          /\ pc' = [pc EXCEPT ![t] = IF c.op = "Size" THEN "size" ELSE "lock"]
    /\ UNCHANGED <<vars, latch_, snap>>

\* A lock that never waits.
LatchFreeAlways == TRUE

\* std::mutex::lock() returns only when no thread owns the mutex.
LatchFree == latch_ = {}

\* std::lock_guard constructor (lines 20, 54, 94, 113).
Lock(t) ==
    /\ pc[t] = "lock"
    /\ LatchFree
    /\ latch_' = {t}
    /\ pc' = [pc EXCEPT ![t] = "body"]
    /\ snap' = [snap EXCEPT ![t] = state]
    /\ UNCHANGED <<vars, call>>

\* The body of the method, run while the caller owns latch_.
Body(t) ==
    /\ pc[t] = "body"
    /\ \/ call[t].op = "Evict" /\ Evict
       \/ call[t].op = "RecordAccess" /\ \E f \in call[t].frame : RecordAccess(f)
       \/ call[t].op = "SetEvictable"
             /\ \E f \in call[t].frame : SetEvictable(f, call[t].flag)
       \/ call[t].op = "Remove" /\ \E f \in call[t].frame : Remove(f)
    /\ pc' = [pc EXCEPT ![t] = "unlock"]
    /\ UNCHANGED <<latch_, call, snap>>

\* A release that is skipped when the method throws.
ReleasedOnReturnOnly(t) == IF result.status = "throw" THEN latch_ ELSE latch_ \ {t}

\* std::lock_guard destructor: runs when the method returns and when it throws.
Released(t) == latch_ \ {t}

Unlock(t) ==
    /\ pc[t] = "unlock"
    /\ latch_' = Released(t)
    /\ pc' = [pc EXCEPT ![t] = "idle"]
    /\ call' = [call EXCEPT ![t] = NoCall]
    /\ snap' = [snap EXCEPT ![t] = <<>>]
    /\ UNCHANGED vars

\* Size() called from outside: it reads curr_size_ without taking latch_
\* (line 136), so the read races with a writer; whatever value the read
\* yields, it is not kept in the replacer.
SizeRead(t) ==
    /\ pc[t] = "size"
    /\ pc' = [pc EXCEPT ![t] = "idle"]
    /\ call' = [call EXCEPT ![t] = NoCall]
    /\ UNCHANGED <<vars, latch_, snap>>

ConcNext ==
    \E t \in Threads : Call(t) \/ Lock(t) \/ Body(t) \/ Unlock(t) \/ SizeRead(t)

ConcSpec == Init /\ [][ConcNext]_cvars

\* Weak fairness of every step a caller takes once it is inside a call.
FairConcSpec ==
    /\ ConcSpec
    /\ \A t \in Threads :
          /\ WF_cvars(Lock(t))
          /\ WF_cvars(Body(t))
          /\ WF_cvars(Unlock(t))
          /\ WF_cvars(SizeRead(t))

----------------------------------------------------------------------------
\* Structural facts the list operations rely on: every iterator map names the
\* frames of its list, and no frame has two nodes.
TypeOK ==
    /\ new_locate_ = {new_frame_[i] : i \in 1..Len(new_frame_)}
    /\ cache_locate_ = {cache_frame_[i][1] : i \in 1..Len(cache_frame_)}
    /\ Cardinality(new_locate_) = Len(new_frame_)
    /\ Cardinality(cache_locate_) = Len(cache_frame_)
    /\ curr_size_ >= 0

----------------------------------------------------------------------------
\* Vocabulary of the properties.

\* Frames with an access count in [1, k_).
EarlySet == {f \in FrameIds : recorded_cnt_[f] >= 1 /\ recorded_cnt_[f] < k_}

\* Frames with an access count of at least k_.
StableSet == {f \in FrameIds : recorded_cnt_[f] >= 1 /\ recorded_cnt_[f] >= k_}

EvictableEarly == {f \in EarlySet : evictable_[f]}

EvictableStable == {f \in StableSet : evictable_[f]}

\* Frames that count towards Size().
Reclaimable == {f \in FrameIds : recorded_cnt_[f] > 0 /\ evictable_[f]}

\* The timestamp of the k_-th most recent access of a frame.
KthBack(f) == hist[f][Len(hist[f]) - k_ + 1]

\* The timestamp of the first access of a frame since it was last untracked.
FirstAccess(f) == hist[f][1]

\* A frame no RecordAccess has ever named: its count is 0 and its flag still has
\* the value it was created with (only RecordAccess sets the flag of a frame
\* whose count is 0, and eviction and removal leave the flag TRUE).
NeverAccessed(f) == recorded_cnt_[f] = 0 /\ ~evictable_[f]

InRange(f) == 0 <= f /\ f < replacer_size_

CheckedOps == {"RecordAccess", "SetEvictable", "Remove"}

----------------------------------------------------------------------------
\* C1: a successful Evict never returns a frame of the Stable Set when, just
\* before the call, some frame of the Early Set is evictable (for every k_).
C1_EarlyBeforeStable ==
    [][(result'.op = "Evict" /\ result'.status = "true" /\ EvictableEarly # {})
        => /\ Cardinality(result'.out) = 1
           /\ \A f \in result'.out : f \notin StableSet]_vars

\* An Evict took an Early frame while an evictable Stable frame was waiting.
C1_Witness ==
    /\ result.op = "Evict"
    /\ result.line = 34
    /\ \E i \in 1..Len(cache_frame_) : evictable_[cache_frame_[i][1]]

\* C2: the frame a successful Evict returns was tracked (count > 0) and
\* evictable just before the call; pinned frames ahead of it are skipped.
C2_EvictsOnlyEvictable ==
    [][(result'.op = "Evict" /\ result'.status = "true")
        => /\ Cardinality(result'.out) = 1
           /\ \A f \in result'.out : recorded_cnt_[f] > 0 /\ evictable_[f]]_vars

\* An Evict skipped the pinned Stable frame that was first in the order and
\* returned a later one.
C2_Witness ==
    /\ result.op = "Evict"
    /\ result.line = 47
    /\ result.pos > 1
    /\ ~evictable_[cache_frame_[1][1]]

\* C3: after every call, Size() is the number of frames with an access count
\* above 0 and the evictable flag set.
C3_SizeCountsReclaimable == Size = Cardinality(Reclaimable)

\* A failed call in a state with one reclaimable frame, one pinned tracked
\* frame and one retired frame whose flag is still set.
C3_Witness ==
    /\ result.status = "throw"
    /\ Size = 1
    /\ \E f \in FrameIds : recorded_cnt_[f] > 0 /\ ~evictable_[f]
    /\ \E f \in FrameIds : recorded_cnt_[f] = 0 /\ evictable_[f]

C5_EarlyByInsertion ==
    [][/\ (result'.op = "Evict" /\ EvictableEarly # {})
            => /\ result'.status = "true"
               /\ Cardinality(result'.out) = 1
               /\ result'.out = {f \in EvictableEarly :
                                    \A g \in EvictableEarly : FirstAccess(f) <= FirstAccess(g)}
       /\ \A f \in FrameIds :
            (/\ result'.op = "RecordAccess"
             /\ result'.arg = {f}
             /\ result'.status = "return"
             /\ recorded_cnt_[f] >= 1
             /\ recorded_cnt_[f] + 1 < k_)
            => new_frame_' = new_frame_]_vars

\* An Evict took an Early frame and left behind an evictable Early frame that
\* has been accessed again since it entered the set.
C5_Witness ==
    /\ result.op = "Evict"
    /\ result.line = 34
    /\ \E i \in 1..Len(new_frame_) :
          evictable_[new_frame_[i]] /\ Len(hist[new_frame_[i]]) >= 2

\* C6: RecordAccess, SetEvictable and Remove with a frame id >= capacity
\* (id == capacity included) fail and leave the whole state unchanged.
C6_RejectsAtOrAboveCapacity ==
    [][\A f \in FrameIds :
          (result'.op \in CheckedOps /\ result'.arg = {f} /\ f >= replacer_size_)
          => (result'.status = "throw" /\ UNCHANGED state)]_vars

\* C7: RecordAccess, SetEvictable and Remove with a negative frame id fail and
\* mutate nothing.
C7_RejectsNegative ==
    [][\A f \in FrameIds :
          (result'.op \in CheckedOps /\ result'.arg = {f} /\ f < 0)
          => (result'.status = "throw" /\ UNCHANGED state)]_vars

\* C8: Remove on an in-range frame that has never been accessed returns
\* normally and leaves the state unchanged.
C8_RemoveUntrackedIsNoop ==
    [][\A f \in FrameIds :
          (result'.op = "Remove" /\ result'.arg = {f} /\ InRange(f) /\ NeverAccessed(f))
          => (result'.status = "return" /\ UNCHANGED state)]_vars

\* C9: Remove on a tracked frame whose evictable flag is false fails and leaves
\* every frame's history, count, set position and flag, and Size, unchanged.
C9_RemovePinnedFails ==
    [][\A f \in FrameIds :
          (result'.op = "Remove" /\ result'.arg = {f}
              /\ recorded_cnt_[f] > 0 /\ ~evictable_[f])
          => (result'.status = "throw" /\ UNCHANGED state)]_vars

\* A Remove of an accepted, tracked, pinned frame has thrown.
C9_Witness ==
    /\ result.op = "Remove"
    /\ result.status = "throw"
    /\ \E f \in FrameIds :
          /\ result.arg = {f}
          /\ ~InvalidFrame(f)
          /\ recorded_cnt_[f] > 0
          /\ ~evictable_[f]
          /\ (f \in new_locate_ \/ f \in cache_locate_)

\* C10: Evict returns false exactly when, just before the call, no frame is
\* tracked and evictable, which is exactly when Size() is 0; a false result
\* leaves the state unchanged.
C10_NotFoundIffEmpty ==
    [][result'.op = "Evict"
        => /\ result'.status \in {"true", "false"}
           /\ (result'.status = "false") <=> (Reclaimable = {})
           /\ (Reclaimable = {}) <=> (Size = 0)
           /\ (result'.status = "false") => UNCHANGED state]_vars

\* An Evict found nothing although frames are tracked: all of them are pinned.
C10_Witness ==
    /\ result.op = "Evict"
    /\ result.status = "false"
    /\ \E f \in FrameIds : recorded_cnt_[f] > 0
    /\ Len(new_frame_) + Len(cache_frame_) > 0

----------------------------------------------------------------------------
\* Vocabulary of the properties on histories and set membership.

Min(a, b) == IF a < b THEN a ELSE b

\* The last n elements of a sequence (all of it when it is shorter).
LastN(seq, n) == IF Len(seq) > n THEN SubSeq(seq, Len(seq) - n + 1, Len(seq)) ELSE seq

Increasing(seq) == \A i \in 1..(Len(seq) - 1) : seq[i] < seq[i + 1]

NewFrames == {new_frame_[i] : i \in 1..Len(new_frame_)}

CacheFrames == {cache_frame_[i][1] : i \in 1..Len(cache_frame_)}

\* std::list::remove on the list of pairs: the list without the node of a frame.
CacheWithout(list, frame) == SelectSeq(list, LAMBDA e : e[1] # frame)

----------------------------------------------------------------------------
\* C11: the first RecordAccess on a frame that was evicted or removed treats it
\* as new: its count becomes 1, its history holds the new timestamp only, its
\* flag is true, Size grows by 1, and it goes to the newest end of the Early Set
\* (to the Stable Set, ranked by the new timestamp, when k_ = 1).
C11_ReaccessStartsAfresh ==
    [][\A f \in FrameIds :
          (/\ result'.op = "RecordAccess"
           /\ result'.arg = {f}
           /\ result'.status = "return"
           /\ recorded_cnt_[f] = 0
           /\ evictable_[f])
          => /\ recorded_cnt_'[f] = 1
             /\ hist'[f] = <<current_timestamp_'>>
             /\ current_timestamp_' = current_timestamp_ + 1
             /\ evictable_'[f]
             /\ curr_size_' = curr_size_ + 1
             /\ IF k_ = 1
                THEN /\ new_frame_' = new_frame_
                     /\ cache_frame_' = Append(cache_frame_, <<f, current_timestamp_'>>)
                ELSE /\ new_frame_' = <<f>> \o new_frame_
                     /\ cache_frame_' = cache_frame_]_vars

\* The only frame ever accessed has one access on record, at a time later than
\* the first tick: its earlier accesses were torn down by an Evict or a Remove.
C11_Witness ==
    /\ result.op = "RecordAccess"
    /\ result.status = "return"
    /\ current_timestamp_ >= 2
    /\ \E f \in FrameIds :
          /\ result.arg = {f}
          /\ recorded_cnt_[f] = 1
          /\ hist[f] = <<current_timestamp_>>
          /\ \A g \in FrameIds \ {f} : recorded_cnt_[g] = 0 /\ ~evictable_[g]

\* C12: after each call every frame's history has min(count, k_) entries, in
\* increasing order, and a RecordAccess leaves the frame with the last k_ of
\* its earlier entries followed by the new timestamp.  (A frame whose history
\* and count a call leaves alone keeps what held of it before the call; all
\* histories are empty and all counts 0 at construction.)
C12_HistoryBounded ==
    [][/\ \A f \in FrameIds :
            \/ hist'[f] = hist[f] /\ recorded_cnt_'[f] = recorded_cnt_[f]
            \/ /\ Len(hist'[f]) = Min(recorded_cnt_'[f], k_)
               /\ Len(hist'[f]) <= k_
               /\ Increasing(hist'[f])
       /\ \A f \in FrameIds :
            (result'.op = "RecordAccess" /\ result'.arg = {f} /\ result'.status = "return")
            => /\ hist'[f] = LastN(Append(hist[f], current_timestamp_ + 1), k_)
               /\ recorded_cnt_'[f] = recorded_cnt_[f] + 1]_vars

\* A frame accessed more than k_ times, with k_ >= 2, keeps k_ entries.
C12_Witness ==
    /\ result.op = "RecordAccess"
    /\ result.line = 89
    /\ k_ >= 2
    /\ \E f \in FrameIds :
          result.arg = {f} /\ recorded_cnt_[f] > k_ /\ Len(hist[f]) = k_

\* C13: SetEvictable on an accepted frame changes nothing when the frame's
\* count is 0 or the flag already has the value asked for; otherwise it sets
\* that frame's flag and moves Size by +1 (true) or -1 (false), and nothing
\* else.  In both cases the same call made again changes nothing.
C13_SetEvictableEffect ==
    [][\A f \in FrameIds, b \in BOOLEAN :
          (/\ result'.op = "SetEvictable"
           /\ result'.arg = {f}
           /\ ~InvalidFrame(f)
           /\ SetEvictable(f, b))
          => /\ result'.status = "return"
             /\ IF recorded_cnt_[f] = 0 \/ evictable_[f] = b
                THEN UNCHANGED state
                ELSE /\ evictable_' = [evictable_ EXCEPT ![f] = b]
                     /\ curr_size_' = IF b THEN curr_size_ + 1 ELSE curr_size_ - 1
                     /\ UNCHANGED <<replacer_size_, k_, current_timestamp_, hist,
                                    recorded_cnt_, new_frame_, new_locate_,
                                    cache_frame_, cache_locate_>>
             /\ (recorded_cnt_'[f] = 0 \/ evictable_'[f] = b)]_vars

\* A SetEvictable has pinned a tracked in-range frame.
C13_Witness ==
    /\ result.op = "SetEvictable"
    /\ result.line = 110
    /\ \E f \in FrameIds :
          result.arg = {f} /\ InRange(f) /\ recorded_cnt_[f] > 0 /\ ~evictable_[f]

\* C14: Remove on a tracked, evictable frame, Early or Stable, leaves it
\* untracked (count 0, empty history, in neither set), lowers Size by 1 and
\* leaves every other frame's history, count, flag and relative order as they
\* were.
C14_RemoveRetires ==
    [][\A f \in FrameIds :
          (result'.op = "Remove" /\ result'.arg = {f}
              /\ recorded_cnt_[f] > 0 /\ evictable_[f])
          => /\ result'.status = "return"
             /\ recorded_cnt_' = [recorded_cnt_ EXCEPT ![f] = 0]
             /\ hist' = [hist EXCEPT ![f] = <<>>]
             /\ evictable_' = evictable_
             /\ curr_size_' = curr_size_ - 1
             /\ new_frame_' = ListRemove(new_frame_, f)
             /\ cache_frame_' = CacheWithout(cache_frame_, f)
             /\ f \notin NewFrames' /\ f \notin CacheFrames'
             /\ f \notin new_locate_' /\ f \notin cache_locate_'
             /\ current_timestamp_' = current_timestamp_]_vars

\* A Remove took a frame out of the Stable Set while others stayed in it.
C14_Witness ==
    /\ result.op = "Remove"
    /\ result.line = 132
    /\ Len(cache_frame_) >= 2

----------------------------------------------------------------------------
\* The set a frame is in, read off the two lists.
InNew(f) == \E i \in 1..Len(new_frame_) : new_frame_[i] = f

InCache(f) == \E i \in 1..Len(cache_frame_) : cache_frame_[i][1] = f

Kind(f) ==
    IF InNew(f)
    THEN IF InCache(f) THEN "Both" ELSE "Early"
    ELSE IF InCache(f) THEN "Stable" ELSE "Untracked"

\* The set a frame belongs to by its access count.
KindByCount(f) ==
    IF recorded_cnt_[f] = 0 THEN "Untracked"
    ELSE IF recorded_cnt_[f] < k_ THEN "Early"
    ELSE "Stable"

\* The call that has just ended retired frame f.
Retires(f) ==
    \/ result'.op = "Evict" /\ result'.status = "true" /\ result'.out = {f}
    \/ result'.op = "Remove" /\ result'.status = "return" /\ result'.arg = {f}

\* The call that has just ended was a successful RecordAccess of frame f.
Accesses(f) ==
    result'.op = "RecordAccess" /\ result'.status = "return" /\ result'.arg = {f}

\* C17 as stated: every frame is in exactly the set its count names, and a
\* frame changes set only from Untracked to Early on its first access, from
\* Early to Stable at its k_-th access, or from Early or Stable to Untracked by
\* an Evict or a Remove.
C17_LifecycleAsStated ==
    [][\A f \in FrameIds :
          /\ Kind(f)' = KindByCount(f)'
          /\ Kind(f)' # Kind(f)
             => \/ Kind(f) = "Untracked" /\ Kind(f)' = "Early"
                   /\ Accesses(f) /\ recorded_cnt_'[f] = 1
                \/ Kind(f) = "Early" /\ Kind(f)' = "Stable"
                   /\ Accesses(f) /\ recorded_cnt_'[f] = k_
                \/ Kind(f) \in {"Early", "Stable"} /\ Kind(f)' = "Untracked"
                   /\ Retires(f)]_vars

\* C17 as amended: as above, and with k_ = 1 the first access takes a frame
\* from Untracked to Stable in one call.
C17_Lifecycle ==
    [][\A f \in FrameIds :
          /\ Kind(f)' = KindByCount(f)'
          /\ Kind(f)' # Kind(f)
             => \/ Kind(f) = "Untracked" /\ Kind(f)' = "Early"
                   /\ Accesses(f) /\ recorded_cnt_'[f] = 1 /\ k_ > 1
                \/ Kind(f) = "Untracked" /\ Kind(f)' = "Stable"
                   /\ Accesses(f) /\ recorded_cnt_'[f] = 1 /\ k_ = 1
                \/ Kind(f) = "Early" /\ Kind(f)' = "Stable"
                   /\ Accesses(f) /\ recorded_cnt_'[f] = k_
                \/ Kind(f) \in {"Early", "Stable"} /\ Kind(f)' = "Untracked"
                   /\ Retires(f)]_vars

\* With k_ = 1 a first access has put a frame into the Stable Set while another
\* frame, promoted earlier, is there too.
C17_Witness ==
    /\ result.op = "RecordAccess"
    /\ result.line = 78
    /\ k_ = 1
    /\ Len(cache_frame_) >= 2
    /\ \E f \in FrameIds : result.arg = {f} /\ recorded_cnt_[f] = 1 /\ Kind(f) = "Stable"

C20_AccessKeepsFlag ==
    [][\A f \in FrameIds :
          (Accesses(f) /\ recorded_cnt_[f] >= 1)
          => /\ evictable_' = evictable_
             /\ curr_size_' = curr_size_
             /\ recorded_cnt_' = [recorded_cnt_ EXCEPT ![f] = recorded_cnt_[f] + 1]
             /\ \A g \in FrameIds \ {f} : hist'[g] = hist[g]
             /\ Len(hist'[f]) >= 1
             /\ hist'[f][Len(hist'[f])] = current_timestamp_']_vars

\* A pinned frame has been accessed again and sits in the Stable Set.
C20_Witness ==
    /\ result.op = "RecordAccess"
    /\ result.line \in {78, 89}
    /\ \E f \in FrameIds :
          /\ result.arg = {f}
          /\ recorded_cnt_[f] >= 2
          /\ ~evictable_[f]
          /\ f \in CacheFrames

----------------------------------------------------------------------------
\* Callers inside the critical section of a method.
InCritical == {t \in Threads : pc[t] \in {"body", "unlock"}}

\* C15: with concurrent callers of Evict, RecordAccess, SetEvictable and
\* Remove, at most one caller is inside a critical section, the state a caller
\* works on is the one it found when it took the lock, and every step that
\* changes the replacer is one whole method of the one-caller-at-a-time
\* specification, taken between that call's entry and its exit.
C15_Linearizable ==
    [][/\ Cardinality(InCritical') <= 1
       /\ \A t \in Threads : pc'[t] \in {"body", "unlock"} => latch_' = {t}
       /\ \A t \in Threads : pc'[t] = "body" => snap'[t] = state'
       /\ \A t \in Threads :
            (pc[t] = "body" /\ pc'[t] = "unlock")
            => /\ state = snap[t]
               /\ result'.op = call[t].op
               /\ Next
       /\ (\A t \in Threads : ~(pc[t] = "body" /\ pc'[t] = "unlock"))
            => UNCHANGED vars]_cvars

\* A caller has changed the replacer inside its critical section while the
\* other caller waits for the lock.
C15_Witness ==
    \E t \in Threads, u \in Threads :
        /\ pc[t] = "unlock"
        /\ pc[u] = "lock"
        /\ snap[t] # state
        /\ result.status \in {"true", "return"}

\* C16: no caller is reading the size counter in Size() while another caller
\* holds the lock.
C16_SizeUnderLock ==
    \A t \in Threads : pc[t] = "size" => \A u \in Threads \ {t} : u \notin latch_

\* C19 as stated: under weak fairness, every call that has started completes.
C19_EveryCallCompletes ==
    \A t \in Threads : (pc[t] # "idle") ~> (pc[t] = "idle")

\* C19 as amended: under weak fairness, every call that owns the lock and every
\* Size() call completes, and the lock, once taken, is released, whatever way
\* the method ends.
C19_HolderCompletes ==
    /\ \A t \in Threads : (pc[t] \in {"body", "unlock", "size"}) ~> (pc[t] = "idle")
    /\ (latch_ # {}) ~> (latch_ = {})

\* A method has thrown and its caller still owns the lock the other caller is
\* waiting for.
C19_Witness ==
    \E t \in Threads, u \in Threads :
        /\ pc[t] = "unlock"
        /\ latch_ = {t}
        /\ result.status = "throw"
        /\ pc[u] = "lock"

====
